---- MODULE Spec2Model ----
(***************************************************************************)
(* Model of streamlit_app.py: a Streamlit page that, on each click of the  *)
(* "Scrape Website" button, obtains the memoized Selenium driver           *)
(* (get_driver), runs scrape_website on the entered URL, displays the      *)
(* result and finally quits the driver.                                    *)
(*                                                                         *)
(* Text is modelled as a sequence of one-character strings, so that        *)
(* strip, splitlines, split("  ") and join are computed character by       *)
(* character.  A parsed page (the BeautifulSoup tree) is a tree of nodes   *)
(* [tag, str, kids]: a text node has tag "#text" and its characters in     *)
(* str, an element has its children in kids.                               *)
(***************************************************************************)
EXTENDS Integers, Sequences, FiniteSets, TLC

(***************************************************************************)
(* Bounds of the model.                                                    *)
(***************************************************************************)
\* longest generated text node
MaxLen == 4
\* button clicks in one process
MaxRequests == 3

(***************************************************************************)
(* Characters.                                                             *)
(***************************************************************************)
SP == " "
NL == "\n"
TAB == "\t"

\* the characters str.strip() removes, among those the model uses
Whitespace == {SP, NL, TAB}

\* the characters str.splitlines() breaks at, among those the model uses
LineBreaks == {NL}

\* the characters generated text nodes are made of
Alphabet == {"a", SP, NL, TAB}

(***************************************************************************)
(* str methods used by scrape_website.                                     *)
(***************************************************************************)
RECURSIVE LStrip(_)
LStrip(s) ==
    IF s # <<>> /\ Head(s) \in Whitespace THEN LStrip(Tail(s)) ELSE s

RECURSIVE RStrip(_)
RStrip(s) ==
    IF s # <<>> /\ s[Len(s)] \in Whitespace
    THEN RStrip(SubSeq(s, 1, Len(s) - 1))
    ELSE s

\* str.strip()
Strip(s) == RStrip(LStrip(s))

\* str.splitlines(): cur is the line being read; a line break ends it, and
\* the text after the last break is a line only when it is not empty
RECURSIVE SplitLinesFrom(_, _)
SplitLinesFrom(s, cur) ==
    IF s = <<>> THEN (IF cur = <<>> THEN <<>> ELSE <<cur>>)
    ELSE IF Head(s) \in LineBreaks
         THEN <<cur>> \o SplitLinesFrom(Tail(s), <<>>)
         ELSE SplitLinesFrom(Tail(s), Append(cur, Head(s)))

SplitLines(s) == SplitLinesFrom(s, <<>>)

\* str.split("  "): left to right, each two-space separator found is
\* consumed; always at least one part
RECURSIVE SplitDoubleSpaceFrom(_, _)
SplitDoubleSpaceFrom(s, cur) ==
    IF s = <<>> THEN <<cur>>
    ELSE IF Len(s) >= 2 /\ s[1] = SP /\ s[2] = SP
         THEN <<cur>> \o SplitDoubleSpaceFrom(SubSeq(s, 3, Len(s)), <<>>)
         ELSE SplitDoubleSpaceFrom(Tail(s), Append(cur, Head(s)))

\* a split at every single space instead
RECURSIVE SplitSingleSpaceFrom(_, _)
SplitSingleSpaceFrom(s, cur) ==
    IF s = <<>> THEN <<cur>>
    ELSE IF s[1] = SP
         THEN <<cur>> \o SplitSingleSpaceFrom(Tail(s), <<>>)
         ELSE SplitSingleSpaceFrom(Tail(s), Append(cur, Head(s)))

SplitSingleSpace(s) == SplitSingleSpaceFrom(s, <<>>)

SplitDoubleSpace(s) == SplitDoubleSpaceFrom(s, <<>>)

\* '\n'.join(parts)
RECURSIVE JoinLines(_)
JoinLines(parts) ==
    IF parts = <<>> THEN <<>>
    ELSE IF Len(parts) = 1 THEN parts[1]
    ELSE parts[1] \o <<NL>> \o JoinLines(Tail(parts))

\* concatenation of a sequence of sequences
RECURSIVE Flatten(_)
Flatten(ss) == IF ss = <<>> THEN <<>> ELSE Head(ss) \o Flatten(Tail(ss))

\* every chunk kept, the empty ones too
KeepEmpty(ss) == ss

\* the elements of a sequence that are not empty, in order
RECURSIVE NonEmpty(_)
NonEmpty(ss) ==
    IF ss = <<>> THEN <<>>
    ELSE IF Head(ss) = <<>> THEN NonEmpty(Tail(ss))
    ELSE <<Head(ss)>> \o NonEmpty(Tail(ss))

\* lines = (line.strip() for line in text_content.splitlines())
StrippedLines(text_content) ==
    LET ls == SplitLines(text_content)
    IN  [i \in 1..Len(ls) |-> Strip(ls[i])]

\* chunks = (phrase.strip() for line in lines for phrase in line.split("  "))
Chunks(lines) ==
    LET perLine == [i \in 1..Len(lines) |->
                       LET ps == SplitDoubleSpace(lines[i])
                       IN  [j \in 1..Len(ps) |-> Strip(ps[j])]]
    IN  Flatten(perLine)

\* clean_text = '\n'.join(chunk for chunk in chunks if chunk)
CleanText(text_content) ==
    JoinLines(NonEmpty(Chunks(StrippedLines(text_content))))

(***************************************************************************)
(* Markup and the parsed tree.  Markup (driver.page_source) is a sequence  *)
(* of tokens: an opening tag, a closing tag or one character of text.      *)
(***************************************************************************)
Open(t) == [k |-> "open", v |-> t]
Close(t) == [k |-> "close", v |-> t]
Ch(c) == [k |-> "char", v |-> c]

\* the tokens of a run of text
Chars(s) == [i \in 1..Len(s) |-> Ch(s[i])]

\* an element <t>body</t>
Element(t, body) == <<Open(t)>> \o body \o <<Close(t)>>

TextNode(s) == [tag |-> "#text", str |-> s, kids |-> <<>>]
Tag(t, kids) == [tag |-> t, str |-> <<>>, kids |-> kids]

\* Python's None, where a node is expected
None == [tag |-> "#none", str |-> <<>>, kids |-> <<>>]

\* the node gets one more child; a character following a text node extends it
AddChar(node, c) ==
    LET n == Len(node.kids)
    IN  IF n > 0 /\ node.kids[n].tag = "#text"
        THEN [node EXCEPT !.kids[n].str = Append(@, c)]
        ELSE [node EXCEPT !.kids = Append(@, TextNode(<<c>>))]

\* BeautifulSoup(page_source, 'html.parser') on well-formed markup: stack
\* holds the open elements, the document first
RECURSIVE ParseFrom(_, _)
ParseFrom(tokens, stack) ==
    IF tokens = <<>> THEN stack[1]
    ELSE LET tok == Head(tokens)
             d == Len(stack)
         IN  IF tok.k = "char"
             THEN ParseFrom(Tail(tokens),
                            [stack EXCEPT ![d] = AddChar(@, tok.v)])
             ELSE IF tok.k = "open"
             THEN ParseFrom(Tail(tokens), Append(stack, Tag(tok.v, <<>>)))
             ELSE ParseFrom(Tail(tokens),
                            [SubSeq(stack, 1, d - 1) EXCEPT
                                ![d - 1].kids = Append(@, stack[d])])

BeautifulSoup(page_source) == ParseFrom(page_source, <<Tag("[document]", <<>>)>>)

\* every node below n, in document order
RECURSIVE Descendants(_)
Descendants(n) ==
    Flatten([i \in 1..Len(n.kids) |-> <<n.kids[i]>> \o Descendants(n.kids[i])])

\* soup.find_all(names), also written soup(names)
FindAll(soup, names) == SelectSeq(Descendants(soup), LAMBDA d : d.tag \in names)

\* soup.find(name): the first match, or None
Find(soup, name) ==
    LET found == FindAll(soup, {name})
    IN  IF found = <<>> THEN None ELSE found[1]

\* node.get_text(): the text nodes below it, concatenated in document order
RECURSIVE GetText(_)
GetText(n) ==
    IF n.tag = "#text" THEN n.str
    ELSE Flatten([i \in 1..Len(n.kids) |-> GetText(n.kids[i])])

\* the elements the scraper removes before reading the text
Removed == {"script", "style"}

\* only the script elements removed
RECURSIVE DecomposeScriptOnly(_)
DecomposeScriptOnly(n) ==
    LET keep == SelectSeq(n.kids, LAMBDA c : c.tag # "script")
    IN  [n EXCEPT !.kids = [i \in 1..Len(keep) |-> DecomposeScriptOnly(keep[i])]]

\* for script in soup(["script", "style"]): script.decompose()
RECURSIVE Decompose(_)
Decompose(n) ==
    LET keep == SelectSeq(n.kids, LAMBDA c : c.tag \notin Removed)
    IN  [n EXCEPT !.kids = [i \in 1..Len(keep) |-> Decompose(keep[i])]]

\* title_text = title.get_text().strip() if title else "No title found"
NoTitleFound ==
    <<"N", "o", " ", "t", "i", "t", "l", "e", " ", "f", "o", "u", "n", "d">>

\* the title's text as it stands, not stripped
TitleTextUnstripped(soup) ==
    LET title == Find(soup, "title")
    IN  IF title # None THEN GetText(title) ELSE NoTitleFound

TitleText(soup) ==
    LET title == Find(soup, "title")
    IN  IF title # None THEN Strip(GetText(title)) ELSE NoTitleFound

Success == <<"s", "u", "c", "c", "e", "s", "s">>
ErrorPrefix == <<"e", "r", "r", "o", "r", ":", " ">>

\* the try body of scrape_website once driver.get and driver.page_source
\* have returned
Scraped(page_source) ==
    LET soup == BeautifulSoup(page_source)
    IN  [title |-> TitleText(soup),
         raw_html |-> page_source,
         clean_text |-> CleanText(GetText(Decompose(soup))),
         status |-> Success]

\* an except branch that returns the bare message
FailedNoPrefix(msg) ==
    [title |-> <<>>, raw_html |-> <<>>, clean_text |-> <<>>, status |-> msg]

\* the except branch of scrape_website: str(e) is msg
Failed(msg) ==
    [title |-> <<>>, raw_html |-> <<>>, clean_text |-> <<>>,
     status |-> ErrorPrefix \o msg]

(***************************************************************************)
(* The pages the model serves.                                             *)
(***************************************************************************)
\* every text of at most MaxLen characters
Texts == UNION {[1..n -> Alphabet] : n \in 0..MaxLen}

\* the page of the end-to-end example
DemoPage ==
    Element("html",
        Element("head", Element("title", Chars(<<" ", "D", "e", "m", "o", " ">>)))
        \o Element("body",
               Element("script", Chars(<<"x", "=", "1">>))
               \o Element("p", Chars(<<"H", "e", "l", "l", "o", " ", " ",
                                      "W", "o", "r", "l", "d">>))))

\* a page whose title is t
TitledPage(t) ==
    Element("html",
        Element("head", Element("title", Chars(t)))
        \o Element("body", Element("p", Chars(<<"a">>))))

\* a page without title whose text t follows a script
UntitledPage(t) ==
    Element("html",
        Element("body",
            Element("script", Chars(<<"x">>)) \o Element("p", Chars(t))))

\* a page with t in a style and in a script, and a second title in the body
StyledPage(t) ==
    Element("html",
        Element("head",
            Element("title", Chars(<<"a", " ">>)) \o Element("style", Chars(t)))
        \o Element("body",
               Element("div",
                   Chars(<<"a", " ">>) \o Element("script", Chars(t))
                   \o Element("b", Chars(<<" ", "a">>)))
               \o Element("title", Chars(<<"b">>))))

\* a page with t in two adjacent elements around a script
SplitPage(t) ==
    Element("body",
        Element("p", Chars(t)) \o Element("script", Chars(<<"x">>))
        \o Element("b", Chars(t)))

PagesOver(texts) ==
    {DemoPage, <<>>}
    \cup {TitledPage(t) : t \in texts} \cup {UntitledPage(t) : t \in texts}
    \cup {StyledPage(t) : t \in texts} \cup {SplitPage(t) : t \in texts}

\* the texts of the pages the request model serves
SampleTexts == {<<>>, <<"a", SP, SP, "a">>, <<SP, "a", NL, TAB>>}

(***************************************************************************)
(* The process: the memoized driver, the web, and one script run per       *)
(* button click.                                                           *)
(***************************************************************************)
\* value="http://example.com" of the text input
DefaultUrl == "http://example.com"
OtherUrl == "http://test.local"
Urls == {DefaultUrl, OtherUrl}

\* get_driver's return None; browser sessions are numbered from 1
NoDriver == 0

\* result before scrape_website has returned in this run
NoResult == [title |-> <<>>, raw_html |-> <<>>, clean_text |-> <<>>, status |-> <<>>]

\* str(e) of the exceptions the model raises
Messages == {<<>>, <<"b", "o", "o", "m">>}

\* where scrape_website's try body can raise ("none": it does not)
RaisePoints == {"get", "page_source", "parse"}

VARIABLES
    served,       \* the static markup each URL serves
    url_input,    \* the text input's value in the current run
    pc,           \* where the current run of the script is
    cached,       \* st.cache_resource's entry for get_driver: <<>> or <<value>>
    started,      \* the browser sessions webdriver.Chrome has started
    closed,       \* the sessions that are no longer live
    driver,       \* the run's local variable driver
    result,       \* the run's local variable result
    ui,           \* the messages the current run has shown
    reqNo,        \* button clicks so far
    calls,        \* history: every scrape_website call, [url, result, live]
    bodyRan,      \* history: get_driver's body ran in this run
    scrapedLive,  \* history: the session was live when scrape_website was called
    raisedAt,     \* history: where this run's scrape_website raised
    quits,        \* history: driver.quit() calls of this run
    quitTried,    \* history: sessions driver.quit() was called on
    quitRaised,   \* history: sessions on which a driver.quit() raised
    obtained      \* history: earlier runs that obtained a handle

vars == <<served, url_input, pc, cached, started, closed, driver, result, ui,
          reqNo, calls, bodyRan, scrapedLive, raisedAt, quits, quitTried,
          quitRaised, obtained>>

process == <<cached, started, closed, calls, quitTried, quitRaised, obtained>>
runHistory == <<bodyRan, scrapedLive, raisedAt, quits>>

InitWith(pages) ==
    /\ served \in {f \in [Urls -> pages \cup {DemoPage}] : f[DefaultUrl] = DemoPage}
    /\ url_input = DefaultUrl
    /\ pc = "idle"
    /\ cached = <<>>
    /\ started = {}
    /\ closed = {}
    /\ driver = NoDriver
    /\ result = NoResult
    /\ ui = {}
    /\ reqNo = 0
    /\ calls = <<>>
    /\ bodyRan = FALSE
    /\ scrapedLive = FALSE
    /\ raisedAt = "none"
    /\ quits = 0
    /\ quitTried = {}
    /\ quitRaised = {}
    /\ obtained = 0

Init == InitWith(PagesOver(SampleTexts))

InitParse == InitWith(PagesOver(Texts))

\* a rerun of the script starts with a fresh page and fresh locals
Rerun(u) ==
    /\ pc = "idle"
    /\ reqNo < MaxRequests
    /\ reqNo' = reqNo + 1
    /\ url_input' = u
    /\ driver' = NoDriver
    /\ result' = NoResult
    /\ bodyRan' = FALSE
    /\ scrapedLive' = FALSE
    /\ raisedAt' = "none"
    /\ quits' = 0
    /\ UNCHANGED <<served, process>>

\* the button is clicked with a URL in the text input
Click(u) ==
    /\ Rerun(u)
    /\ ui' = {}
    /\ pc' = "get_driver"

\* the button is clicked with the text input empty
ClickEmpty ==
    /\ Rerun("")
    /\ ui' = {"Please enter a valid URL."}
    /\ pc' = "idle"

\* get_driver without the memoizing decorator
CacheNeverHit(c) == FALSE

\* @st.cache_resource: an entry, whatever value it holds, is a hit
CacheHit(c) == c # <<>>

\* if driver: ... else: st.error("Failed to initialize web driver...")
AfterGetDriver(d, shown) ==
    /\ driver' = d
    /\ pc' = IF d # NoDriver THEN "scrape" ELSE "idle"
    /\ ui' = IF d # NoDriver THEN shown
             ELSE shown \cup {"Failed to initialize web driver. Please try again."}

\* driver = get_driver(), the entry exists: the cached value is returned and
\* the st.error the body showed when it stored None is replayed
GetDriverCached ==
    /\ pc = "get_driver"
    /\ CacheHit(cached)
    /\ AfterGetDriver(cached[1],
                      IF cached[1] = NoDriver
                      THEN ui \cup {"Failed to initialize Chrome driver"}
                      ELSE ui)
    /\ bodyRan' = FALSE
    /\ UNCHANGED <<served, url_input, result, reqNo, process, scrapedLive,
                   raisedAt, quits>>

\* driver = get_driver(), no entry: the body runs, webdriver.Chrome starts a
\* session or raises, and the value returned is stored
GetDriverStart ==
    /\ pc = "get_driver"
    /\ ~CacheHit(cached)
    /\ \E ok \in BOOLEAN :
          LET h == IF ok THEN Cardinality(started) + 1 ELSE NoDriver
          IN  /\ started' = IF ok THEN started \cup {h} ELSE started
              /\ cached' = <<h>>
              /\ AfterGetDriver(h,
                                IF ok THEN ui
                                ELSE ui \cup {"Failed to initialize Chrome driver"})
    /\ bodyRan' = TRUE
    /\ UNCHANGED <<served, url_input, result, reqNo, closed, calls, quitTried,
                   quitRaised, obtained, scrapedLive, raisedAt, quits>>

\* scrape_website(url, driver): at is where the try body raises, msg the
\* exception's message
ScrapeWebsite(page_source, at, msg) ==
    IF at = "none" THEN Scraped(page_source) ELSE Failed(msg)

\* result = scrape_website(url_input, driver); driver.get raises on a
\* session that is no longer live
Scrape ==
    /\ pc = "scrape"
    /\ \E at \in RaisePoints \cup {"none"}, msg \in Messages :
          /\ driver \in closed => at = "get"
          /\ at = "none" => msg = <<>>
          /\ raisedAt' = at
          /\ result' = ScrapeWebsite(served[url_input], at, msg)
          /\ calls' = Append(calls, [url |-> url_input, result |-> result',
                                 live |-> driver \notin closed])
    /\ scrapedLive' = (driver \notin closed)
    /\ ui' = ui \cup {"Loading"}
    /\ pc' = "display"
    /\ UNCHANGED <<served, url_input, cached, started, closed, driver, reqNo,
                   bodyRan, quits, quitTried, quitRaised, obtained>>

\* driver.quit() placed in the success branch only
AfterDisplayQuitOnSuccess(status) == IF status = Success THEN "cleanup" ELSE "idle"

\* the finally clause runs whatever the try block did
AfterDisplay(status) == "cleanup"

\* the if/else on result['status'], and the except clause around it
Display ==
    /\ pc = "display"
    /\ \E raises \in BOOLEAN :
          ui' = (IF result.status = Success
                 THEN ui \cup {"Scraping completed successfully!"}
                 ELSE ui \cup {"Scraping failed"})
                \cup (IF raises THEN {"An error occurred"} ELSE {})
    /\ pc' = AfterDisplay(result.status)
    /\ UNCHANGED <<served, url_input, driver, result, reqNo, process, runHistory>>

\* how driver.quit() can end
QuitOutcomes == {"ok", "raises"}

\* finally: try: driver.quit() except: pass.  A quit that returns has ended
\* the session; one that raises may or may not have
Cleanup ==
    /\ pc = "cleanup"
    /\ \E out \in QuitOutcomes, ended \in BOOLEAN :
          /\ out = "ok" => ended
          /\ closed' = IF ended THEN closed \cup {driver} ELSE closed
          /\ quitRaised' = IF out = "raises" THEN quitRaised \cup {driver}
                           ELSE quitRaised
    /\ quits' = quits + 1
    /\ quitTried' = quitTried \cup {driver}
    /\ obtained' = obtained + 1
    /\ pc' = "idle"
    /\ UNCHANGED <<served, url_input, cached, started, driver, result, ui, reqNo,
                   calls, bodyRan, scrapedLive, raisedAt>>

Next ==
    \/ \E u \in Urls : Click(u)
    \/ ClickEmpty
    \/ GetDriverCached
    \/ GetDriverStart
    \/ Scrape
    \/ Display
    \/ Cleanup

Spec == Init /\ [][Next]_vars

\* the first click of a process
FirstClick(u) == reqNo = 0 /\ Click(u)

\* the first request of a process, over every generated page
NextParse ==
    \/ \E u \in Urls : FirstClick(u)
    \/ GetDriverStart
    \/ Scrape
    \/ Display
    \/ Cleanup

SpecParse == InitParse /\ [][NextParse]_vars

(***************************************************************************)
(* What the claims speak of, read off the markup itself.                   *)
(***************************************************************************)
\* the request's page, as served
Page == served[url_input]

\* this run's scrape_website returned success
Succeeded == result.status = <<"s", "u", "c", "c", "e", "s", "s">>

\* the characters of the tokens at the positions idx, in order
CharsAt(tokens, idx) ==
    LET nth(k) == CHOOSE i \in idx : Cardinality({j \in idx : j < i}) = k - 1
    IN  [k \in 1..Cardinality(idx) |-> tokens[nth(k)].v]

\* position i lies inside a script or style element
Hidden(tokens, i) ==
    \E j \in 1..(i - 1) :
        /\ tokens[j].k = "open"
        /\ tokens[j].v \in {"script", "style"}
        /\ \A m \in (j + 1)..(i - 1) : tokens[m] # [k |-> "close", v |-> tokens[j].v]

\* the text outside every script and style element
VisibleChars(tokens) ==
    CharsAt(tokens, {i \in 1..Len(tokens) : tokens[i].k = "char" /\ ~Hidden(tokens, i)})

\* the text inside every script and style element
HiddenChars(tokens) ==
    CharsAt(tokens, {i \in 1..Len(tokens) : tokens[i].k = "char" /\ Hidden(tokens, i)})

\* the positions of the opening title tags
TitleOpens(tokens) ==
    {i \in 1..Len(tokens) : tokens[i] = [k |-> "open", v |-> "title"]}

\* the text of the first title element
FirstTitleChars(tokens) ==
    LET i == CHOOSE a \in TitleOpens(tokens) : \A b \in TitleOpens(tokens) : a <= b
        ends == {e \in (i + 1)..Len(tokens) : tokens[e] = [k |-> "close", v |-> "title"]}
        j == CHOOSE a \in ends : \A b \in ends : a <= b
    IN  CharsAt(tokens, {m \in (i + 1)..(j - 1) : tokens[m].k = "char"})

\* t is s without the whitespace at its two ends
IsTrimOf(t, s) ==
    /\ t # <<>> => t[1] \notin Whitespace /\ t[Len(t)] \notin Whitespace
    /\ \E a \in 0..(Len(s) - Len(t)) :
          /\ SubSeq(s, a + 1, a + Len(t)) = t
          /\ \A i \in (1..a) \cup ((a + Len(t) + 1)..Len(s)) : s[i] \in Whitespace

\* a line break or two consecutive spaces lies between positions i and j
Separated(s, i, j) ==
    \E m \in i..j : s[m] \in LineBreaks \/ (m < j /\ s[m] = " " /\ s[m + 1] = " ")

\* the positions where a fragment of s starts
FragmentStarts(s) ==
    {i \in 1..Len(s) :
        /\ s[i] \notin Whitespace
        /\ \A h \in 1..(i - 1) : s[h] \notin Whitespace => Separated(s, h, i)}

\* the last position of the fragment that starts at i
FragmentEnd(s, i) ==
    LET reach == {j \in i..Len(s) : s[j] \notin Whitespace /\ ~Separated(s, i, j)}
    IN  CHOOSE j \in reach : \A h \in reach : h <= j

\* the fragments of s, one per line
FragmentLines(s) ==
    LET starts == FragmentStarts(s)
        n == Cardinality(starts)
        nth(k) == CHOOSE i \in starts : Cardinality({h \in starts : h < i}) = k - 1
    IN  Flatten([k \in 1..n |->
                    SubSeq(s, nth(k), FragmentEnd(s, nth(k)))
                    \o (IF k < n THEN <<"\n">> ELSE <<>>)])

\* consecutive scrape_website calls i, i+1 for one URL, the first successful
\* and the second not failing in a live session
SameMarkupTwice(i) ==
    /\ calls[i].url = calls[i + 1].url
    /\ calls[i].result.status = Success
    /\ calls[i + 1].live => calls[i + 1].result.status = Success

\* this run was abandoned because get_driver returned None
Abandoned == pc = "idle" /\ reqNo > 0 /\ url_input # "" /\ driver = NoDriver

\* this run has called scrape_website
Scrapes == pc \in {"display", "cleanup"} \/ (pc = "idle" /\ driver # NoDriver)

(***************************************************************************)
(* C1.  Browser sessions.                                                  *)
(***************************************************************************)
\* C1: in one process get_driver starts at most one browser session; once a
\* run has obtained a handle, every later get_driver returns that same
\* handle from the cache without running its body again.
C1_SingleSession ==
    /\ Cardinality(started) <= 1
    /\ driver # NoDriver => driver \in started /\ cached = <<driver>>
    /\ (obtained > 0 /\ pc \in {"scrape", "display", "cleanup"}) =>
          ~bodyRan /\ driver \in quitTried

C1_Witness ==
    pc = "scrape" /\ reqNo >= 2 /\ obtained >= 1 /\ driver = 1 /\ ~bodyRan

(***************************************************************************)
(* C2.  The handle after a failed scrape.                                  *)
(***************************************************************************)
\* C2: when the previous scrape_website call returned an "error: ..."
\* status, the handle the next run passes to scrape_website is still a
\* live session.
C2_HandleStaysLive ==
    (pc = "scrape" /\ calls # <<>> /\ calls[Len(calls)].result.status # Success)
        => driver \notin closed

(***************************************************************************)
(* C3.  The result of scrape_website.                                      *)
(***************************************************************************)
\* C3: scrape_website always returns a result: if its body raised, status is
\* "error: " followed by the exception's message and title, raw_html and
\* clean_text are empty; otherwise status is "success"; no result has an
\* error status and a non-empty field.
C3_ErrorResult ==
    Scrapes =>
        /\ raisedAt # "none" =>
              /\ Len(result.status) >= 7
              /\ SubSeq(result.status, 1, 7) = <<"e", "r", "r", "o", "r", ":", " ">>
              /\ SubSeq(result.status, 8, Len(result.status)) \in Messages
        /\ raisedAt = "none" => Succeeded
        /\ ~Succeeded =>
              result.title = <<>> /\ result.raw_html = <<>> /\ result.clean_text = <<>>
        /\ calls # <<>> /\ calls[Len(calls)].result = result

C3_Witness ==
    /\ pc = "display"
    /\ raisedAt = "parse"
    /\ result.status = <<"e", "r", "r", "o", "r", ":", " ", "b", "o", "o", "m">>

(***************************************************************************)
(* C4.  Two scrapes of one static page.                                    *)
(***************************************************************************)
\* C4: two consecutive scrape_website calls of one process for the same URL,
\* which serves the same markup both times, return the same title and the
\* same clean_text.
C4_Idempotent ==
    \A i \in 1..(Len(calls) - 1) :
        SameMarkupTwice(i) =>
            /\ calls[i].result.title = calls[i + 1].result.title
            /\ calls[i].result.clean_text = calls[i + 1].result.clean_text

(***************************************************************************)
(* C5.  Startup failure.                                                   *)
(***************************************************************************)
\* C5: a run in which get_driver yields no handle has reported the failure,
\* has not called scrape_website nor quit, and is the result of a startup
\* attempted in that very run: a failure is not carried over to later runs.
C5_FailureNotSticky ==
    Abandoned =>
        /\ "Failed to initialize Chrome driver" \in ui
        /\ "Failed to initialize web driver. Please try again." \in ui
        /\ result = NoResult /\ quits = 0
        /\ bodyRan

(***************************************************************************)
(* C6.  Script and style text.                                             *)
(***************************************************************************)
\* C6: after a successful scrape, clean_text is made of the text outside
\* script and style elements only: it is what the cleaning gives for the
\* markup's characters that have no script or style element around them.
C6_NoScriptText ==
    Succeeded => result.clean_text = CleanText(VisibleChars(Page))

C6_Witness ==
    /\ Succeeded
    /\ \E i \in 1..Len(HiddenChars(Page)) : HiddenChars(Page)[i] \notin Whitespace
    /\ result.clean_text # <<>>
    /\ \A i \in 1..Len(result.clean_text) : result.clean_text[i] # "x"

(***************************************************************************)
(* C7.  The title.                                                         *)
(***************************************************************************)
\* C7: after a successful scrape, title is the text of the markup's first
\* title element without its leading and trailing whitespace, or exactly
\* "No title found" when the markup has no title element.
C7_Title ==
    Succeeded =>
        IF TitleOpens(Page) # {}
        THEN IsTrimOf(result.title, FirstTitleChars(Page))
        ELSE result.title =
                <<"N", "o", " ", "t", "i", "t", "l", "e", " ", "f", "o", "u", "n", "d">>

C7_Witness ==
    /\ Succeeded
    /\ Page = TitledPage(<<" ", "a", "\t">>)
    /\ result.title = <<"a">>

(***************************************************************************)
(* C8.  No blank line.                                                     *)
(***************************************************************************)
\* C8: after a successful scrape, every line of clean_text starts and ends
\* with a character that is not whitespace (so no line is empty or blank),
\* and clean_text is empty when the visible text is all whitespace.
C8_NoBlankLine ==
    Succeeded =>
        LET ct == result.clean_text
        IN  /\ \A i \in 1..Len(ct) :
                  /\ (i = 1 \/ ct[i - 1] = "\n") => ct[i] \notin Whitespace
                  /\ (i = Len(ct) \/ ct[i + 1] = "\n") => ct[i] \notin Whitespace
            /\ (\A i \in 1..Len(VisibleChars(Page)) :
                    VisibleChars(Page)[i] \in Whitespace) => ct = <<>>

C8_Witness ==
    /\ Succeeded
    /\ Page = UntitledPage(<<"a", "\n", "\n", "a">>)
    /\ result.clean_text = <<"a", "\n", "a">>

(***************************************************************************)
(* C9.  The fragments.                                                     *)
(***************************************************************************)
\* C9: after a successful scrape, clean_text is the visible text's
\* fragments in document order, one per line: a fragment runs from one
\* non-whitespace character to another with no line break and no two
\* consecutive spaces in between, and is as long as that allows.
C9_Fragments ==
    Succeeded => result.clean_text = FragmentLines(VisibleChars(Page))

C9_Witness ==
    /\ Succeeded
    /\ Page = UntitledPage(<<"a", " ", " ", "a">>)
    /\ result.clean_text = <<"a", "\n", "a">>

(***************************************************************************)
(* C10.  The close after every request.                                    *)
(***************************************************************************)
\* what C10 says of the close itself: a run that obtained a handle calls
\* driver.quit() exactly once, after scrape_website and the display, and
\* shows nothing about it
ClosesOnce ==
    /\ pc # "idle" => quits = 0
    /\ (pc = "idle" /\ driver # NoDriver) =>
          /\ quits = 1
          /\ result # NoResult
          /\ ui \subseteq {"Loading", "Scraping completed successfully!",
                           "Scraping failed", "An error occurred"}

\* C10 as claimed: the close is attempted exactly once per run that obtained
\* a handle, and every run after the first that obtained one calls
\* scrape_website on a session that is already closed.
C10_ScrapesClosedHandle ==
    /\ ClosesOnce
    /\ (Scrapes /\ obtained - (IF pc = "idle" THEN 1 ELSE 0) > 0) => ~scrapedLive

\* C10 as amended: ... calls scrape_website on the handle an earlier run has
\* already called quit on; that session is closed unless a quit on it raised.
C10_ScrapesQuitHandle ==
    /\ ClosesOnce
    /\ (Scrapes /\ obtained - (IF pc = "idle" THEN 1 ELSE 0) > 0) =>
          /\ driver \in quitTried
          /\ scrapedLive => driver \in quitRaised

C10_Witness ==
    /\ pc = "idle" /\ reqNo >= 2 /\ obtained >= 2 /\ quits = 1
    /\ ~scrapedLive
    /\ driver \in quitRaised

====
